---- MODULE Spec2Model ----
(***************************************************************************)
(* Uma front end: the character cursor (lexer::Buffer), the tokenizer      *)
(* (Lexer), the token stream buffer (parser::utils::Buffer) and the        *)
(* recursive-descent / precedence-climbing parser (Parser).                *)
(*                                                                         *)
(* Conventions.                                                            *)
(*   Option<T>      : <<>> is None, <<x>> is Some(x).                      *)
(*   char           : a one-character string; NUL is the '\0' sentinel.    *)
(*   Token          : [kind, value, line, column].                         *)
(*   Result<T, E>   : [t, val, err, toks]; t is "ok" or "err", and also    *)
(*                    "panic" (the process aborts) or "hang" (a loop that  *)
(*                    repeats the same state for ever).  toks is the token *)
(*                    stream the routine leaves behind.                    *)
(*   HashMap<K, V>  : a function from the set of keys.                     *)
(***************************************************************************)
EXTENDS Integers, Sequences, FiniteSets, TLC

RECURSIVE primary(_), binary(_, _, _), expr(_), call(_, _), call_loop(_, _, _)
RECURSIVE block(_), block_loop(_, _), stmt(_, _), function(_)

----------------------------------------------------------------------------
(* lexer/tokens.rs                                                         *)

Token_new(kind, value, line, column) ==
    [kind |-> kind, value |-> value, line |-> line, column |-> column]

\* Variant: every operator binds alike.
precedence_flat(kind) ==
    CASE kind = "Expo" -> 1
      [] kind \in {"Div", "Multi"} -> 1
      [] kind \in {"Add", "Sub"} -> 1
      [] OTHER -> -1

precedence(kind) ==
    CASE kind = "Expo" -> 3
      [] kind \in {"Div", "Multi"} -> 2
      [] kind \in {"Add", "Sub"} -> 1
      [] OTHER -> -1

----------------------------------------------------------------------------
(* parser/utils.rs: ParserError and the token stream buffer                *)

NoVal == [t |-> "none"]
NoErr == [type |-> "none"]

Ok(val, toks) == [t |-> "ok", val |-> val, err |-> NoErr, toks |-> toks]

ParserError_new(type, token, message, toks) ==
    [t |-> "err", val |-> NoVal,
     err |-> [type |-> type, token |-> token, message |-> message],
     toks |-> toks]

Panic(msg, toks) ==
    [t |-> "panic", val |-> NoVal, err |-> [type |-> "panic", message |-> msg],
     toks |-> toks]

Hang(toks) == [t |-> "hang", val |-> NoVal, err |-> NoErr, toks |-> toks]

peek(toks) == IF toks = <<>> THEN <<>> ELSE <<Head(toks)>>

get(toks, idx) == IF idx < Len(toks) THEN <<toks[idx + 1]>> ELSE <<>>

consume(toks) ==
    IF toks = <<>>
    THEN Panic("Unexpected end of tokens", toks)
    ELSE Ok(Head(toks), Tail(toks))

\* Variant: the kind is not compared.
try_expect_any(toks, kind) ==
    IF peek(toks) # <<>>
    THEN [some |-> <<consume(toks).val>>, toks |-> consume(toks).toks]
    ELSE [some |-> <<>>, toks |-> toks]

try_expect(toks, kind) ==
    IF peek(toks) # <<>> /\ peek(toks)[1].kind = kind
    THEN [some |-> <<consume(toks).val>>, toks |-> consume(toks).toks]
    ELSE [some |-> <<>>, toks |-> toks]

\* Variant: the offending token is dropped.
expect_skip(toks, kind) ==
    LET r == try_expect(toks, kind) IN
    IF r.some # <<>>
    THEN Ok(r.some[1], r.toks)
    ELSE LET token == IF peek(toks) # <<>> THEN peek(toks)[1]
                      ELSE Token_new("None", <<>>, 0, 0)
         IN  ParserError_new("ExpectedToken", token,
                             <<"Expected", kind, "but encountered", token.kind>>,
                             IF toks = <<>> THEN toks ELSE Tail(toks))

expect(toks, kind) ==
    LET r == try_expect(toks, kind) IN
    IF r.some # <<>>
    THEN Ok(r.some[1], r.toks)
    ELSE LET token == IF peek(toks) # <<>> THEN peek(toks)[1]
                      ELSE Token_new("None", <<>>, 0, 0)
         IN  ParserError_new("ExpectedToken", token,
                             <<"Expected", kind, "but encountered", token.kind>>,
                             toks)

----------------------------------------------------------------------------
(* parser/types.rs: the AST and the conversions into it                    *)

Expr_Binary(lhs, op, rhs) == [t |-> "Binary", lhs |-> lhs, op |-> op, rhs |-> rhs]

Stmt_Expr(e) == [t |-> "Expr", e |-> e]

Stmt_Call(name, args) == [t |-> "Call", name |-> name, args |-> args]

Stmt_Assignment(name, value) == [t |-> "Assignment", name |-> name, value |-> value]

Stmt_Variable(name, value, is_mut) ==
    [t |-> "Variable", name |-> name, value |-> value, is_mut |-> is_mut]

Stmt_Function(name, args, external, is_varadic, body) ==
    [t |-> "Function", name |-> name, args |-> args, external |-> external,
     is_varadic |-> is_varadic, body |-> body]

Stmt_Attribute(name, value) == [t |-> "Attribute", name |-> name, value |-> value]

Stmt_Return(e) == [t |-> "Return", e |-> e]

Stmt_Empty == [t |-> "Empty"]

Block(stmts) == [stmts |-> stmts]

\* impl Into<Stmt> for Token: Stmt::Expr(Expr::<kind>(value.unwrap()))
Token_into_Stmt(token) == Stmt_Expr([t |-> token.kind, v |-> token.value[1]])

----------------------------------------------------------------------------------------------------------------------------------------
(* parser/mod.rs: the expression parser                                    *)

\* The `?` operator: an outcome other than Ok leaves the routine at once,
\* an Ok outcome is handed to the rest of the routine.
Try(r, rest(_)) == IF r.t # "ok" THEN r ELSE rest(r)

primary(toks) ==
    Try(consume(toks), LAMBDA token :
        CASE token.val.kind \in {"String", "Number", "Float"} ->
               Ok(Token_into_Stmt(token.val), token.toks)
          [] token.val.kind = "Identifier" ->
               IF /\ peek(token.toks) # <<>>
                  /\ peek(token.toks)[1].kind = "PareL"
               THEN call(token.toks, token.val.value[1])
               ELSE Ok(Token_into_Stmt(token.val), token.toks)
          [] token.val.kind = "PareL" ->
               Try(expr(token.toks), LAMBDA e :
               Try(expect(e.toks, "PareR"), LAMBDA close :
                   Ok(e.val, close.toks)))
          [] OTHER ->
               ParserError_new("UnexpectedToken", token.val,
                               <<"Unexpected token occurred", token.val.kind>>,
                               token.toks))

\* The while loop of binary(): one call is one pass, the tail call the next.
binary(toks, lhs, prec) ==
    IF peek(toks) = <<>> THEN Ok(lhs, toks)
    ELSE IF precedence(peek(toks)[1].kind) < prec THEN Ok(lhs, toks)
    ELSE Try(consume(toks), LAMBDA op :
         Try(primary(op.toks), LAMBDA p :
         Try(IF /\ peek(p.toks) # <<>>
                /\ precedence(op.val.kind) < precedence(peek(p.toks)[1].kind)
             THEN binary(p.toks, p.val, precedence(op.val.kind) + 1)
             ELSE p, LAMBDA rhs :
             binary(rhs.toks,
                    Stmt_Expr(Expr_Binary(lhs, op.val, rhs.val)),
                    prec))))

expr(toks) ==
    Try(primary(toks), LAMBDA p : binary(p.toks, p.val, 0))

\* The loop of call(): one call is one pass.
call_loop(toks, name, args) ==
    Try(expr(toks), LAMBDA arg :
        LET close == try_expect(arg.toks, "PareR") IN
        IF close.some # <<>>
        THEN Ok(Stmt_Call(name, Append(args, arg.val)),
                try_expect(close.toks, "Semi").toks)
        ELSE Try(expect(arg.toks, "Comma"), LAMBDA comma :
                 call_loop(comma.toks, name, Append(args, arg.val))))

call(toks, name) ==
    Try(expect(toks, "PareL"), LAMBDA open :
        LET close == try_expect(open.toks, "PareR") IN
        IF close.some # <<>>
        THEN Ok(Stmt_Call(name, <<>>), close.toks)
        ELSE call_loop(open.toks, name, <<>>))

----------------------------------------------------------------------------
(* parser/mod.rs: the statement parser                                     *)

assignment(toks) ==
    Try(consume(toks), LAMBDA token :                 \* identifier
    Try(consume(token.toks), LAMBDA eq :              \* equals
    Try(expr(eq.toks), LAMBDA value :
    Try(expect(value.toks, "Semi"), LAMBDA semi :
        Ok(Stmt_Assignment(token.val.value[1], value.val), semi.toks)))))

ident(toks, token) ==
    IF get(toks, 1) # <<>> /\ get(toks, 1)[1].kind = "Equals"
    THEN assignment(toks)
    ELSE expr(toks)

return_(toks) ==
    Try(expect(toks, "Return"), LAMBDA kw :
    Try(expr(kw.toks), LAMBDA e :
        Ok(Stmt_Return(e.val), try_expect(e.toks, "Semi").toks)))

\* Variant: `mut` is consumed but not recorded.
variable_immutable(toks) ==
    Try(expect(toks, "Let"), LAMBDA kw :
        LET mut == try_expect(kw.toks, "Mut") IN
        Try(expect(mut.toks, "Identifier"), LAMBDA name :
        Try(expect(name.toks, "Equals"), LAMBDA eq :
        Try(expr(eq.toks), LAMBDA value :
            Ok(Stmt_Variable(name.val.value[1], value.val, FALSE),
               try_expect(value.toks, "Semi").toks)))))

variable(toks) ==
    Try(expect(toks, "Let"), LAMBDA kw :
        LET mut == try_expect(kw.toks, "Mut") IN
        Try(expect(mut.toks, "Identifier"), LAMBDA name :
        Try(expect(name.toks, "Equals"), LAMBDA eq :
        Try(expr(eq.toks), LAMBDA value :
            Ok(Stmt_Variable(name.val.value[1], value.val, mut.some # <<>>),
               try_expect(value.toks, "Semi").toks)))))

\* The optional `: type` of one parameter (the `type_` binding of args()).
arg_type(toks, with_types) ==
    IF with_types /\ try_expect(toks, "Colon").some # <<>>
    THEN Try(expect(try_expect(toks, "Colon").toks, "Identifier"), LAMBDA ty :
             Ok(<<ty.val.value[1]>>, ty.toks))
    ELSE Ok(<<>>, toks)

RECURSIVE args_loop_open(_, _, _, _)
\* Variant: the `)` after the ellipsis is not required.
args_loop_open(toks, with_types, should_be_unique, args) ==
    LET elip == try_expect(toks, "Ellipsis") IN
    IF elip.some # <<>>
    THEN Ok([args |-> args, is_varadic |-> TRUE],
            try_expect(try_expect(elip.toks, "Comma").toks, "PareR").toks)
    ELSE Try(expect(toks, "Identifier"), LAMBDA arg :
         IF should_be_unique /\ arg.val.value[1] \in DOMAIN args
         THEN ParserError_new("DuplicateArgument", arg.val,
                              <<"Duplicate argument", arg.val.value[1]>>,
                              arg.toks)
         ELSE Try(arg_type(arg.toks, with_types), LAMBDA type_ :
              LET args2 == (arg.val.value[1] :> type_.val) @@ args
                  close == try_expect(type_.toks, "PareR")
              IN  IF close.some # <<>>
                  THEN Ok([args |-> args2, is_varadic |-> FALSE], close.toks)
                  ELSE Try(expect(type_.toks, "Comma"), LAMBDA comma :
                           args_loop_open(comma.toks, with_types,
                                          should_be_unique, args2))))

RECURSIVE args_loop(_, _, _, _)
\* The loop of args(): one call is one pass.
args_loop(toks, with_types, should_be_unique, args) ==
    LET elip == try_expect(toks, "Ellipsis") IN
    IF elip.some # <<>>
    THEN Try(expect(try_expect(elip.toks, "Comma").toks, "PareR"), LAMBDA close :
             Ok([args |-> args, is_varadic |-> TRUE], close.toks))
    ELSE Try(expect(toks, "Identifier"), LAMBDA arg :
         IF should_be_unique /\ arg.val.value[1] \in DOMAIN args
         THEN ParserError_new("DuplicateArgument", arg.val,
                              <<"Duplicate argument", arg.val.value[1]>>,
                              arg.toks)
         ELSE Try(arg_type(arg.toks, with_types), LAMBDA type_ :
              LET args2 == (arg.val.value[1] :> type_.val) @@ args
                  close == try_expect(type_.toks, "PareR")
              IN  IF close.some # <<>>
                  THEN Ok([args |-> args2, is_varadic |-> FALSE], close.toks)
                  ELSE Try(expect(type_.toks, "Comma"), LAMBDA comma :
                           args_loop(comma.toks, with_types, should_be_unique,
                                     args2))))

args(toks, with_types, should_be_unique) ==
    Try(expect(toks, "PareL"), LAMBDA open :
        LET close == try_expect(open.toks, "PareR") IN
        IF close.some # <<>>
        THEN Ok([args |-> <<>>, is_varadic |-> FALSE], close.toks)
        ELSE args_loop(open.toks, with_types, should_be_unique, <<>>))

\* Variant: the closing `)` is left in the stream.
attribute_unclosed(toks) ==
    Try(expect(toks, "Identifier"), LAMBDA name :
    Try(expect(name.toks, "PareL"), LAMBDA open :
    Try(expect(open.toks, "String"), LAMBDA value :
        Ok(Stmt_Attribute(name.val.value[1], value.val.value[1]),
           value.toks))))

attribute(toks) ==
    Try(expect(toks, "Identifier"), LAMBDA name :
    Try(expect(name.toks, "PareL"), LAMBDA open :
    Try(expect(open.toks, "String"), LAMBDA value :
    Try(expect(value.toks, "PareR"), LAMBDA close :
        Ok(Stmt_Attribute(name.val.value[1], value.val.value[1]),
           close.toks)))))

\* The while loop of block(): one call is one pass.  A pass in which stmt()
\* succeeds and leaves the stream as it was is followed by the same pass for
\* ever (stmt() depends on the stream only, and only `stmts` grows).
block_loop(toks, stmts) ==
    IF peek(toks) = <<>> \/ peek(toks)[1].kind = "BraceR"
    THEN Try(expect(toks, "BraceR"), LAMBDA close :
             Ok(Block(stmts), close.toks))
    ELSE Try(stmt(toks, peek(toks)[1]), LAMBDA s :
             IF s.toks = toks THEN Hang(toks)
             ELSE block_loop(s.toks, Append(stmts, s.val)))

block(toks) ==
    Try(expect(toks, "BraceL"), LAMBDA open : block_loop(open.toks, <<>>))

\* Variant: args() is called with should_be_unique = false.
function_not_unique(toks) ==
    Try(expect(toks, "Func"), LAMBDA kw :
    Try(expect(kw.toks, "Identifier"), LAMBDA name :
    Try(args(name.toks, TRUE, FALSE), LAMBDA a :
        LET external == try_expect(a.toks, "At") IN
        IF external.some # <<>>
        THEN Try(attribute(external.toks), LAMBDA attr :
                 IF attr.val.name # "requires"
                 THEN ParserError_new("InvalidAttribute", external.some[1],
                                      <<"Invalid attribute", attr.val.name>>,
                                      attr.toks)
                 ELSE Ok(Stmt_Function(name.val.value[1], a.val.args,
                                       <<attr.val.value>>, a.val.is_varadic,
                                       Block(<<>>)),
                         attr.toks))
        ELSE Try(block(a.toks), LAMBDA body :
                 Ok(Stmt_Function(name.val.value[1], a.val.args, <<>>,
                                  a.val.is_varadic, body.val),
                    try_expect(body.toks, "Semi").toks)))))

\* Variant: the attribute's name is not compared with `requires`.
function_any_attribute(toks) ==
    Try(expect(toks, "Func"), LAMBDA kw :
    Try(expect(kw.toks, "Identifier"), LAMBDA name :
    Try(args(name.toks, TRUE, TRUE), LAMBDA a :
        LET external == try_expect(a.toks, "At") IN
        IF external.some # <<>>
        THEN Try(attribute(external.toks), LAMBDA attr :
                 Ok(Stmt_Function(name.val.value[1], a.val.args,
                                  <<attr.val.value>>, a.val.is_varadic,
                                  Block(<<>>)),
                    attr.toks))
        ELSE Try(block(a.toks), LAMBDA body :
                 Ok(Stmt_Function(name.val.value[1], a.val.args, <<>>,
                                  a.val.is_varadic, body.val),
                    try_expect(body.toks, "Semi").toks)))))

function(toks) ==
    Try(expect(toks, "Func"), LAMBDA kw :
    Try(expect(kw.toks, "Identifier"), LAMBDA name :
    Try(args(name.toks, TRUE, TRUE), LAMBDA a :
        LET external == try_expect(a.toks, "At") IN
        IF external.some # <<>>
        THEN Try(attribute(external.toks), LAMBDA attr :
                 IF attr.val.name # "requires"
                 THEN ParserError_new("InvalidAttribute", external.some[1],
                                      <<"Invalid attribute", attr.val.name>>,
                                      attr.toks)
                 ELSE Ok(Stmt_Function(name.val.value[1], a.val.args,
                                       <<attr.val.value>>, a.val.is_varadic,
                                       Block(<<>>)),
                         attr.toks))
        ELSE Try(block(a.toks), LAMBDA body :
                 Ok(Stmt_Function(name.val.value[1], a.val.args, <<>>,
                                  a.val.is_varadic, body.val),
                    try_expect(body.toks, "Semi").toks)))))

stmt(toks, token) ==
    CASE token.kind = "Func" -> function(toks)
      [] token.kind = "Let" -> variable(toks)
      [] token.kind = "Return" -> return_(toks)
      [] token.kind = "Identifier" -> ident(toks, token)
      [] token.kind = "Semi" -> Ok(Stmt_Empty, toks)
      [] OTHER -> expr(toks)

----------------------------------------------------------------------------
(* lexer/utils.rs: the character cursor                                    *)

Buffer_new(raw) ==
    LET current == IF raw = <<>> THEN "NUL" ELSE Head(raw) IN
    [data    |-> IF raw = <<>> THEN <<>> ELSE Tail(raw),
     eof     |-> current = "NUL",
     current |-> current,
     line    |-> 1 + (IF current = "\n" THEN 1 ELSE 0),
     column  |-> 0]

\* next(): the cursor after the call, and the Option<char> it returns.
next(b) ==
    IF b.data = <<>>
    THEN [buf |-> [b EXCEPT !.eof = TRUE], ret |-> <<>>]
    ELSE [buf |-> [data    |-> Tail(b.data),
                   eof     |-> b.eof,
                   current |-> Head(b.data),
                   line    |-> IF Head(b.data) = "\n" THEN b.line + 1 ELSE b.line,
                   column  |-> IF Head(b.data) = "\n" THEN 0 ELSE b.column + 1],
          ret |-> <<Head(b.data)>>]

----------------------------------------------------------------------------
(* lexer/mod.rs: character classes, keywords and single-character tokens   *)

Letters == {"a", "b", "e", "f", "i", "l", "n", "t"}

Digits == {"0", "1", "2", "9"}

is_alphanumeric(c) == c \in Letters \cup Digits

is_ascii_digit(c) == c \in Digits

is_whitespace(c) == c \in {" ", "\n", "\t"}

LexToken(token_type, value) == [token_type |-> token_type, value |-> value]

match_keyword_to_token(keyword) ==
    CASE keyword = <<"l", "e", "t">> -> <<LexToken("Let", <<>>)>>
      [] keyword = <<"m", "u", "t">> -> <<LexToken("Mut", <<>>)>>
      [] keyword = <<"i", "f">> -> <<LexToken("If", <<>>)>>
      [] keyword = <<"e", "l", "s", "e">> -> <<LexToken("Else", <<>>)>>
      [] keyword = <<"f", "u", "n", "c">> -> <<LexToken("Func", <<>>)>>
      [] keyword = <<"r", "e", "t", "u", "r", "n">> -> <<LexToken("Return", <<>>)>>
      [] keyword = <<"t", "r", "u", "e">> -> <<LexToken("True", <<>>)>>
      [] keyword = <<"f", "a", "l", "s", "e">> -> <<LexToken("False", <<>>)>>
      [] keyword = <<"n", "o", "n", "e">> -> <<LexToken("None", <<>>)>>
      [] OTHER -> <<>>

\* parse_character: the token type of a single character, None where the
\* code panics.
parse_character(c) ==
    CASE c = ";" -> <<"Semi">>
      [] c = "=" -> <<"Equals">>
      [] c = "." -> <<"Dot">>
      [] c = "," -> <<"Comma">>
      [] c = "{" -> <<"BraceL">>
      [] c = "}" -> <<"BraceR">>
      [] c = "(" -> <<"PareL">>
      [] c = ")" -> <<"PareR">>
      [] c = "[" -> <<"BracketL">>
      [] c = "]" -> <<"BracketR">>
      [] c = "+" -> <<"Add">>
      [] c = "-" -> <<"Sub">>
      [] c = "/" -> <<"Div">>
      [] c = "*" -> <<"Multi">>
      [] c = "^" -> <<"Expo">>
      [] OTHER -> <<>>

\* Variant: the character after the backslash is pushed as it is.
escape_raw(c) == c

\* The escape table of parse_string.
escape(c) ==
    CASE c = "n" -> "\n"
      [] c = "t" -> "\t"
      [] OTHER -> c

contains(str, c) == \E i \in 1..Len(str) : str[i] = c

----------------
(* State.                                                                  *)
(*   input   the input the run was started on (source text, or the         *)
(*           description of the token sequence handed to Parser::new)      *)
(*   tokens  Parser.tokens                                                 *)
(*   stmts   the `stmts` vector of parse()                                 *)
(*   status  where parse() stands: "running", or how it ended              *)
(*   result  the last call made on the parser or the token stream: the     *)
(*           routine, its argument, the stream before it and its outcome   *)
(*   buffer  Lexer.buffer, the character cursor                            *)
(*   lex_pc  where lex() stands: "lex" (head of its loop), "idx", "num",   *)
(*           "str" (inside parse_idx_or_kw, parse_number, parse_string),   *)
(*           "done" (returned), "panic"; "idle" when no lexer runs         *)
(*   out     the `out` string of the scanning routine in progress          *)
(*   delim   the `delimeter` of parse_string                               *)
(*   start   index in the source of the character the scan started on      *)
(*   lexed   the `tokens` vector of lex()                                  *)

VARIABLES input, tokens, stmts, status, result, buffer, lex_pc, out, delim,
          start, lexed

vars == <<input, tokens, stmts, status, result, buffer, lex_pc, out, delim,
          start, lexed>>

parserVars == <<tokens, stmts, status, result>>

lexerVars == <<buffer, lex_pc, out, delim, start, lexed>>

NoResult == [op |-> "none", arg |-> "", before |-> <<>>, res |-> NoVal]

NoBuffer == [data |-> <<>>, eof |-> TRUE, current |-> "NUL", line |-> 1,
             column |-> 0]

ParserIdle ==
    /\ tokens = <<>>
    /\ stmts = <<>>
    /\ status = "idle"
    /\ result = NoResult

LexerIdle ==
    /\ buffer = NoBuffer
    /\ lex_pc = "idle"
    /\ out = <<>>
    /\ delim = "NUL"
    /\ start = 0
    /\ lexed = <<>>

----------------------------------------------------------------------------
(* Inputs of the parser: token sequences.  A lexeme is a kind and a        *)
(* payload; the tokens of an input carry the positions of a one-line       *)
(* source in which every token is one character wide.                      *)

MaxAny == 3          \* longest arbitrary token sequence
MaxFrags == 3        \* most fragments in a program
MaxStmts == 4        \* most statements parse() collects
MaxExprLen == 7      \* longest well-formed expression, in tokens
MaxParams == 3       \* most parameters of a function declaration

Lx(kind) == [kind |-> kind, value |-> <<>>]

LxV(kind, v) == [kind |-> kind, value |-> <<v>>]

Id(v) == LxV("Identifier", v)

Num(v) == LxV("Number", v)

Str(v) == LxV("String", v)

Positioned(lexemes) ==
    [i \in 1..Len(lexemes) |->
        Token_new(lexemes[i].kind, lexemes[i].value, 1, i - 1)]

RECURSIVE SeqsUpTo(_, _)
SeqsUpTo(S, n) ==
    IF n = 0 THEN {<<>>}
    ELSE LET shorter == SeqsUpTo(S, n - 1) IN
         shorter \cup {Append(q, x) : q \in shorter, x \in S}

RECURSIVE Flatten(_)
Flatten(ss) == IF ss = <<>> THEN <<>> ELSE Head(ss) \o Flatten(Tail(ss))

----------------------------------------------------------------------------
(* lexer/tokens.rs and codegen/c.rs: the text generated for an expression. *)
(* The generated code is the sequence of the pieces that format! joins.    *)

\* Token::repr
repr(token) ==
    CASE token.kind = "Add" -> Ok("+", <<>>)
      [] token.kind = "Sub" -> Ok("-", <<>>)
      [] token.kind = "Multi" -> Ok("*", <<>>)
      [] token.kind = "Div" -> Ok("/", <<>>)
      [] OTHER -> Panic("Unknown token kind.", <<>>)

RECURSIVE CBackend_stmt(_, _), CBackend_expr(_), CBackend_args(_, _)

\* The `args.iter().map(..).join(", ")` of the Call arm, from argument i on.
CBackend_args(argv, i) ==
    IF i > Len(argv) THEN Ok(<<>>, <<>>)
    ELSE Try(CBackend_stmt(argv[i], FALSE), LAMBDA arg :
         Try(CBackend_args(argv, i + 1), LAMBDA more :
             Ok(arg.val \o (IF i < Len(argv) THEN <<", ">> ELSE <<>>)
                        \o more.val, <<>>)))

\* CBackend::stmt, the arms an expression tree can reach.
CBackend_stmt(node, with_semi) ==
    CASE node.t = "Expr" -> CBackend_expr(node.e)
      [] node.t = "Call" ->
            Try(CBackend_args(node.args, 1), LAMBDA args_str :
                Ok(<<node.name, "(">> \o args_str.val \o <<")">>
                       \o (IF with_semi THEN <<";\n">> ELSE <<>>), <<>>))
      [] node.t = "Empty" -> Ok(<<>>, <<>>)

\* CBackend::expr
CBackend_expr(e) ==
    IF e.t = "Binary"
    THEN Try(CBackend_stmt(e.lhs, FALSE), LAMBDA lhs :
         Try(repr(e.op), LAMBDA op :
         Try(CBackend_stmt(e.rhs, FALSE), LAMBDA rhs :
             Ok(<<"(">> \o lhs.val \o <<" ", op.val, " ">> \o rhs.val
                        \o <<")">>, <<>>))))
    ELSE IF e.t = "String" THEN Ok(<<"\"", e.v, "\"">>, <<>>)
    ELSE Ok(<<e.v>>, <<>>)

----------------------------------------------------------------------------
(* Calls on the parser (one call is one action).                           *)

Called(op, arg, r) ==
    /\ result' = [op |-> op, arg |-> arg, before |-> tokens, res |-> r]
    /\ tokens' = r.toks
    /\ UNCHANGED <<input, stmts, status, lexerVars>>

DoTryExpect(kind) ==
    /\ status = "running"
    /\ Called("try_expect", kind, try_expect(tokens, kind))

DoExpect(kind) ==
    /\ status = "running"
    /\ Called("expect", kind, expect(tokens, kind))

DoExpr ==
    /\ status = "running" /\ result.op = "none"
    /\ Called("expr", "", expr(tokens))

\* CBackend::generate on the expression that expr() has just returned (the
\* text is produced; handing it to the C compiler is not followed).
DoGenerate ==
    /\ status = "running"
    /\ result.op = "expr" /\ result.res.t = "ok"
    /\ result' = [op |-> "generate", arg |-> "", before |-> result.before,
                  res |-> CBackend_stmt(result.res.val, TRUE)]
    /\ UNCHANGED <<input, tokens, stmts, status, lexerVars>>

DoAssignment ==
    /\ status = "running" /\ result.op = "none"
    /\ Called("assignment", "", assignment(tokens))

DoFunction ==
    /\ status = "running" /\ result.op = "none"
    /\ Called("function", "", function(tokens))

DoVariable ==
    /\ status = "running" /\ result.op = "none"
    /\ Called("variable", "", variable(tokens))

\* call(name), the callee's identifier having been consumed by primary().
DoCall ==
    /\ status = "running" /\ result.op = "none"
    /\ Called("call", "f", call(tokens, "f"))

\* args(with_types, should_be_unique), with the flags the run was given.
DoArgs ==
    /\ status = "running" /\ result.op = "none"
    /\ Called("args", "", args(tokens, input.with_types, input.should_be_unique))

\* HashMap::iter(): the entries of the map, each once, in an order the
\* hasher decides (std's RandomState is seeded anew in every process):
\* every order is possible.
HashMap_iter(m) ==
    {q \in [1..Cardinality(DOMAIN m) -> {<<k, m[k]>> : k \in DOMAIN m}] :
        \A i, j \in 1..Cardinality(DOMAIN m) : q[i] = q[j] => i = j}

\* The parameters of the Function node just returned are enumerated.
DoIter ==
    /\ status = "running"
    /\ result.op = "function" /\ result.res.t = "ok"
    /\ \E order \in HashMap_iter(result.res.val.args) :
          result' = [op |-> "iter", arg |-> "", before |-> result.before,
                     res |-> Ok(order, tokens)]
    /\ UNCHANGED <<input, tokens, stmts, status, lexerVars>>

\* One pass of the while loop of parse().
ParsePass ==
    /\ status = "running"
    /\ peek(tokens) # <<>>
    /\ Len(stmts) < MaxStmts
    /\ LET r == stmt(tokens, peek(tokens)[1]) IN
         /\ result' = [op |-> "stmt", arg |-> "", before |-> tokens, res |-> r]
         /\ tokens' = r.toks
         /\ stmts' = IF r.t = "ok" THEN Append(stmts, r.val) ELSE stmts
         /\ status' = IF r.t = "ok" THEN "running" ELSE r.t
    /\ UNCHANGED <<input, lexerVars>>

\* parse() leaves its loop: Ok(stmts).
ParseReturn ==
    /\ status = "running"
    /\ peek(tokens) = <<>>
    /\ status' = "ok"
    /\ UNCHANGED <<input, tokens, stmts, result, lexerVars>>

ParserStartsOn(given, lexemes) ==
    /\ input = given
    /\ tokens = Positioned(lexemes)
    /\ stmts = <<>>
    /\ status = "running"
    /\ result = NoResult
    /\ LexerIdle

ParserStarts(lexemes) == ParserStartsOn(lexemes, lexemes)

----------------------------------------------------------------------------
(* Spec: parse() on arbitrary short token sequences and on programs put    *)
(* together from statement fragments.                                      *)

AnyLexemes ==
    {Lx("Let"), Id("a"), Lx("Equals"), Num("1"), Lx("Semi"), Lx("Add"),
     Lx("Multi"), Lx("PareL"), Lx("PareR"), Lx("Comma"), Lx("Func"),
     Lx("BraceL"), Lx("BraceR"), Lx("Return")}

Fragments ==
    {<<Lx("Let"), Id("a"), Lx("Equals"), Num("1"), Lx("Semi")>>,
     <<Lx("Let"), Lx("Mut"), Id("a"), Lx("Equals"), Str("s")>>,
     <<Id("a"), Lx("Equals"), Num("1"), Lx("Semi")>>,
     <<Id("f"), Lx("PareL"), Lx("PareR"), Lx("Semi")>>,
     <<Id("f"), Lx("PareL"), Num("1"), Lx("Comma"), Id("a"), Lx("PareR"),
       Lx("Semi")>>,
     <<Lx("Func"), Id("f"), Lx("PareL"), Id("a"), Lx("Colon"), Id("Int"),
       Lx("PareR"), Lx("BraceL")>>,
     <<Lx("BraceR")>>,
     <<Lx("Return"), Id("a"), Lx("Add"), Num("1")>>,
     <<Lx("Semi")>>,
     <<Lx("Func"), Id("f"), Lx("PareL"), Lx("Ellipsis"), Lx("PareR"),
       Lx("At"), Id("requires"), Lx("PareL"), Str("h"), Lx("PareR")>>}

ParseInputs ==
    SeqsUpTo(AnyLexemes, MaxAny)
        \cup {Flatten(fs) : fs \in SeqsUpTo(Fragments, MaxFrags)}

Init == \E lexemes \in ParseInputs : ParserStarts(lexemes)

Next == ParsePass \/ ParseReturn

Spec == Init /\ [][Next]_vars

----------------------------------------------------------------------------
(* SpecTokens: try_expect and expect, called in any order.                 *)

TokenKinds == {"Identifier", "Number", "Semi", "PareL"}

TokenLexemes == {Id("a"), Num("1"), Lx("Semi"), Lx("PareL"), Lx("Equals")}

InitTokens == \E lexemes \in SeqsUpTo(TokenLexemes, MaxAny) : ParserStarts(lexemes)

NextTokens == \E kind \in TokenKinds : DoTryExpect(kind) \/ DoExpect(kind)

SpecTokens == InitTokens /\ [][NextTokens]_vars

----------------------------------------------------------------------------------------------------------------------------------------
(* SpecExpr: expr() on every well-formed expression over the leaves, the   *)
(* five binary operators and parentheses.                                  *)

Leaves == {Num("1"), Id("a")}

Operators == {Lx("Add"), Lx("Sub"), Lx("Multi"), Lx("Div"), Lx("Expo")}

\* The token sequences of the grammar
\*     E ::= P | P op E        P ::= leaf | ( E )
\* of exactly n tokens.
RECURSIVE ExprSeqs(_), PrimarySeqs(_)
PrimarySeqs(n) ==
    IF n = 1 THEN {<<l>> : l \in Leaves}
    ELSE IF n >= 3
         THEN {<<Lx("PareL")>> \o e \o <<Lx("PareR")>> : e \in ExprSeqs(n - 2)}
         ELSE {}

ExprSeqs(n) ==
    PrimarySeqs(n) \cup
    UNION {{p \o <<o>> \o e : p \in PrimarySeqs(k), o \in Operators,
                              e \in ExprSeqs(n - k - 1)} : k \in 1..(n - 2)}

ExprInputs == UNION {ExprSeqs(n) : n \in 1..MaxExprLen}

InitExpr == \E lexemes \in ExprInputs : ParserStarts(lexemes)

NextExpr == DoExpr \/ DoGenerate

SpecExpr == InitExpr /\ [][NextExpr]_vars

\* The reference grouping.  Binding strengths as the language defines them.
RefPrec(kind) ==
    CASE kind = "Expo" -> 3
      [] kind \in {"Multi", "Div"} -> 2
      [] kind \in {"Add", "Sub"} -> 1
      [] OTHER -> 0

\* Number of parentheses open in front of toks[i].
Depth(toks, i) ==
    Cardinality({j \in 1..(i - 1) : toks[j].kind = "PareL"})
        - Cardinality({j \in 1..(i - 1) : toks[j].kind = "PareR"})

TopOperators(toks) ==
    {i \in 1..Len(toks) : RefPrec(toks[i].kind) > 0 /\ Depth(toks, i) = 0}

\* The operator applied last: of the weakest operators outside every
\* parenthesis, the rightmost (equal strengths group to the left).
RootOperator(toks) ==
    CHOOSE i \in TopOperators(toks) :
        \A j \in TopOperators(toks) :
            \/ RefPrec(toks[j].kind) > RefPrec(toks[i].kind)
            \/ RefPrec(toks[j].kind) = RefPrec(toks[i].kind) /\ j <= i

RECURSIVE RefTree(_)
RefTree(toks) ==
    IF Len(toks) = 1
    THEN [t |-> "Expr", e |-> [t |-> toks[1].kind, v |-> toks[1].value[1]]]
    ELSE IF TopOperators(toks) = {}
    THEN RefTree(SubSeq(toks, 2, Len(toks) - 1))
    ELSE LET i == RootOperator(toks) IN
         [t |-> "Expr",
          e |-> [t |-> "Binary",
                 lhs |-> RefTree(SubSeq(toks, 1, i - 1)),
                 op |-> toks[i],
                 rhs |-> RefTree(SubSeq(toks, i + 1, Len(toks)))]]

\* C1: on a well-formed expression expr() returns the tree of the reference
\* grouping (higher precedence binds tighter on either side, equal
\* precedence groups to the left, parentheses appear as the unwrapped
\* sub-tree) and has read the whole expression.
C1_ReferenceGrouping ==
    result.op = "expr" =>
        /\ result.res.t = "ok"
        /\ result.res.val = RefTree(result.before)
        /\ tokens = <<>>

\* `x + y + z * w` without parentheses: (x + y) + (z * w).
C1_Witness ==
    /\ result.op = "expr"
    /\ Len(result.before) = 7
    /\ \A i \in 1..7 : result.before[i].kind \notin {"PareL", "PareR"}
    /\ result.res.t = "ok"
    /\ result.res.val.e.t = "Binary"
    /\ result.res.val.e.op.kind = "Add"
    /\ result.res.val.e.lhs.e.t = "Binary"
    /\ result.res.val.e.lhs.e.op.kind = "Add"
    /\ result.res.val.e.rhs.e.t = "Binary"
    /\ result.res.val.e.rhs.e.op.kind = "Multi"

----------------------------------------------------------------------------
(* SpecAssign: assignment() on `name = E ;` and on `name = E` without the  *)
(* terminator, followed by the start of whatever comes next.  E is an      *)
(* expression without calls, or a call f(...) of such expressions.         *)

MaxCallArgs == 2     \* most arguments of a call

CallArgs == {<<Num("1")>>, <<Id("b")>>, <<Num("1"), Lx("Add"), Id("b")>>}

AssignValues ==
    {[call |-> FALSE, lexemes |-> e, args |-> <<>>] :
        e \in ExprSeqs(1) \cup ExprSeqs(3) \cup {<<Str("s")>>}}
    \cup {[call |-> TRUE, lexemes |-> <<>>, args |-> as] :
            as \in SeqsUpTo(CallArgs, MaxCallArgs)}

RECURSIVE CommaSeparated(_)
CommaSeparated(ss) ==
    IF ss = <<>> THEN <<>>
    ELSE IF Len(ss) = 1 THEN ss[1]
    ELSE ss[1] \o <<Lx("Comma")>> \o CommaSeparated(Tail(ss))

ValueLexemes(e) ==
    IF e.call
    THEN <<Id("f"), Lx("PareL")>> \o CommaSeparated(e.args) \o <<Lx("PareR")>>
    ELSE e.lexemes

AssignCases ==
    {[name |-> "a", value |-> e, semi |-> TRUE, suffix |-> x] :
        e \in AssignValues, x \in {<<>>, <<Id("b")>>, <<Lx("Semi")>>}}
    \cup {[name |-> "a", value |-> e, semi |-> FALSE, suffix |-> x] :
            e \in AssignValues, x \in {<<>>, <<Id("b")>>}}

AssignLexemes(c) ==
    <<Id(c.name), Lx("Equals")>> \o ValueLexemes(c.value)
        \o (IF c.semi THEN <<Lx("Semi")>> ELSE <<>>) \o c.suffix

InitAssign == \E c \in AssignCases : ParserStartsOn(c, AssignLexemes(c))

NextAssign == DoAssignment

SpecAssign == InitAssign /\ [][NextAssign]_vars

\* Index in the call f(args) of the first token of argument i, the call
\* standing at token `at`.
RECURSIVE ArgStart(_, _, _)
ArgStart(as, i, at) ==
    IF i = 1 THEN at + 2 ELSE ArgStart(as, i - 1, at) + Len(as[i - 1]) + 1

\* The tree the value E of an assignment stands for; E starts at token 3.
ValueTree(e, toks) ==
    IF e.call
    THEN [t |-> "Call", name |-> "f",
          args |-> [i \in 1..Len(e.args) |->
                      RefTree(SubSeq(toks, ArgStart(e.args, i, 3),
                                     ArgStart(e.args, i, 3) + Len(e.args[i]) - 1))]]
    ELSE RefTree(SubSeq(toks, 3, 2 + Len(e.lexemes)))

\* C5: on `name = E ;` assignment() returns Assignment{name, value = E} and
\* has consumed exactly the tokens up to and including that `;`; without a
\* `;` after E it fails with ExpectedToken.
C5_AssignmentTerminator ==
    result.op = "assignment" =>
        IF input.semi
        THEN /\ result.res.t = "ok"
             /\ result.res.val =
                    [t |-> "Assignment", name |-> input.name,
                     value |-> ValueTree(input.value, result.before)]
             /\ tokens = SubSeq(result.before,
                                Len(result.before) - Len(input.suffix) + 1,
                                Len(result.before))
        ELSE /\ result.res.t = "err"
             /\ result.res.err.type = "ExpectedToken"

----------------------------------------------------------------------------
(* SpecFunction: function() on declarations `func f ( parameters ) ...`.   *)

ParamNames == {"a", "b"}

ParamTypes == {<<>>, <<"Int">>, <<"Str">>}

Params == [name : ParamNames, type : ParamTypes]

\* An attribute `@ name ( value )`; the value is a string literal or, in a
\* malformed attribute, a number.
Attributes ==
    {[name |-> n, value |-> v] : n \in {"requires", "link"},
                                 v \in {Str("h"), Num("1")}}

\* The statements between `{` and `}` and the nodes they stand for.
FunctionBodies ==
    {[lexemes |-> <<>>, stmts |-> <<>>],
     [lexemes |-> <<Lx("Let"), Id("b"), Lx("Equals"), Num("1"), Lx("Semi"),
                    Lx("Return"), Id("b")>>,
      stmts |-> <<Stmt_Variable("b", Token_into_Stmt(Num("1")), FALSE),
                  Stmt_Return(Token_into_Stmt(Id("b")))>>]}

\* A declaration: the parameters, an optional final ellipsis, an optional
\* attribute and an optional `{ }` block, in that order.
FunctionCases ==
    [params : SeqsUpTo(Params, MaxParams), variadic : BOOLEAN,
     external : {<<>>} \cup {<<a>> : a \in Attributes},
     body : {<<>>} \cup {<<b>> : b \in FunctionBodies}]

ParamLexemes(q) ==
    IF q.type = <<>> THEN <<Id(q.name)>>
    ELSE <<Id(q.name), Lx("Colon"), Id(q.type[1])>>

\* `func f ( parameters )`
HeaderLexemes(c) ==
    <<Lx("Func"), Id("f"), Lx("PareL")>>
        \o CommaSeparated([i \in 1..Len(c.params) |-> ParamLexemes(c.params[i])]
                          \o (IF c.variadic THEN << <<Lx("Ellipsis")>> >> ELSE <<>>))
        \o <<Lx("PareR")>>

AttributeLexemes(c) ==
    IF c.external = <<>> THEN <<>>
    ELSE <<Lx("At"), Id(c.external[1].name), Lx("PareL"), c.external[1].value,
           Lx("PareR")>>

BodyLexemes(c) ==
    IF c.body = <<>> THEN <<>>
    ELSE <<Lx("BraceL")>> \o c.body[1].lexemes \o <<Lx("BraceR")>>

FunctionLexemes(c) == HeaderLexemes(c) \o AttributeLexemes(c) \o BodyLexemes(c)

InitFunction == \E c \in FunctionCases : ParserStartsOn(c, FunctionLexemes(c))

NextFunction == DoFunction \/ DoIter

SpecFunction == InitFunction /\ [][NextFunction]_vars

\* Index of the token that names parameter j (`func`, the name and `(`
\* come first).
RECURSIVE ParamAt(_, _)
ParamAt(ps, j) ==
    IF j = 1 THEN 4 ELSE ParamAt(ps, j - 1) + Len(ParamLexemes(ps[j - 1])) + 1

\* The parameters whose name an earlier parameter already has.
Repeated(ps) ==
    {j \in 1..Len(ps) : \E i \in 1..(j - 1) : ps[i].name = ps[j].name}

Least(S) == CHOOSE j \in S : \A k \in S : j <= k

\* C10: a parameter list in which a name occurs twice fails with
\* DuplicateArgument, whatever the declared types; the error carries the
\* token of the second occurrence and no Function node is produced.  A list
\* of pairwise distinct names never yields DuplicateArgument.
C10_DuplicateArgument ==
    result.op = "function" =>
        IF Repeated(input.params) # {}
        THEN /\ result.res.t = "err"
             /\ result.res.err.type = "DuplicateArgument"
             /\ result.res.err.token =
                    result.before[ParamAt(input.params,
                                          Least(Repeated(input.params)))]
             /\ result.res.val = NoVal
        ELSE result.res.err.type # "DuplicateArgument"

\* The same name declared twice with different types.
C10_Witness ==
    /\ result.op = "function"
    /\ Len(input.params) >= 2
    /\ input.params[1].name = input.params[2].name
    /\ input.params[1].type # input.params[2].type
    /\ input.params[1].type # <<>>
    /\ input.params[2].type # <<>>
    /\ result.res.err.type = "DuplicateArgument"
    /\ result.res.err.token.column = 7

\* The declaration is `func f ( pairwise distinct parameters )` followed by
\* an attribute of the form `@ name ( "v" )`.
WellFormedAttribute ==
    /\ Repeated(input.params) = {}
    /\ input.external # <<>>
    /\ input.external[1].value.kind = "String"

\* C11: a Function node with external = Some(v) has an empty body and comes
\* from an attribute `@requires("v")` (and the `{ }` block after it, if any,
\* is left in the stream); an attribute `@name("v")` with another name makes
\* function() fail with InvalidAttribute on the `@` token, without a node;
\* a Function node produced without an `@` has external = None and the
\* statements of its `{ }` block as body.
C11_ExternalDeclaration ==
    result.op = "function" =>
        /\ (result.res.t = "ok" /\ result.res.val.external # <<>>) =>
                /\ WellFormedAttribute
                /\ input.external[1].name = "requires"
                /\ result.res.val.external = input.external[1].value.value
                /\ result.res.val.body = Block(<<>>)
                /\ tokens = SubSeq(result.before,
                                   Len(HeaderLexemes(input)) + 6,
                                   Len(result.before))
        /\ (WellFormedAttribute /\ input.external[1].name # "requires") =>
                /\ result.res.t = "err"
                /\ result.res.err.type = "InvalidAttribute"
                /\ result.res.err.token =
                       result.before[Len(HeaderLexemes(input)) + 1]
                /\ result.res.err.token.kind = "At"
                /\ result.res.val = NoVal
        /\ (result.res.t = "ok" /\ input.external = <<>>) =>
                /\ result.res.val.external = <<>>
                /\ input.body # <<>>
                /\ result.res.val.body = Block(input.body[1].stmts)

\* A variadic external declaration in front of a block.
C11_Witness ==
    /\ result.op = "function"
    /\ result.res.t = "ok"
    /\ result.res.val.external = <<"h">>
    /\ result.res.val.is_varadic
    /\ input.body # <<>>
    /\ peek(tokens) # <<>> /\ peek(tokens)[1].kind = "BraceL"

\* C14: the parameters of a Function node are enumerated in declaration
\* order: for pairwise distinct parameters p1, ..., pn the enumeration
\* yields p1, ..., pn, each with its declared type (or none).
C14_DeclarationOrder ==
    (result.op = "iter" /\ Repeated(input.params) = {}) =>
        result.res.val = [i \in 1..Len(input.params) |->
                            <<input.params[i].name, input.params[i].type>>]

----------------------------------------------------------------------------
(* SpecArgs: args() on `( item , item , ... )`, an item being a parameter  *)
(* or the ellipsis, with or without a `,` in front of the `)`.             *)

MaxItems == 3        \* most items of a parameter list

ArgItems ==
    {<<Id("a")>>, <<Id("b")>>, <<Id("a"), Lx("Colon"), Id("Int")>>,
     <<Lx("Ellipsis")>>}

ArgsCases ==
    [items : SeqsUpTo(ArgItems, MaxItems), comma : BOOLEAN,
     with_types : BOOLEAN, should_be_unique : BOOLEAN,
     suffix : {<<>>, <<Lx("BraceL")>>}]

ArgsLexemes(c) ==
    <<Lx("PareL")>> \o CommaSeparated(c.items)
        \o (IF c.comma THEN <<Lx("Comma")>> ELSE <<>>)
        \o <<Lx("PareR")>> \o c.suffix

InitArgs == \E c \in ArgsCases : ParserStartsOn(c, ArgsLexemes(c))

NextArgs == DoArgs

SpecArgs == InitArgs /\ [][NextArgs]_vars

\* The items that are the ellipsis.
Ellipses(items) == {i \in 1..Len(items) : items[i] = <<Lx("Ellipsis")>>}

\* Index of the token of item i (`(` comes first).
RECURSIVE ItemAt(_, _)
ItemAt(items, i) ==
    IF i = 1 THEN 2 ELSE ItemAt(items, i - 1) + Len(items[i - 1]) + 1

\* C13 as stated: is_variadic = true only when the ellipsis is the last
\* item and the token right after it is the closing `)`; a list in which
\* any other token comes right after an ellipsis is rejected; a list
\* without an ellipsis gives is_variadic = false.
C13_EllipsisThenClose ==
    result.op = "args" =>
        /\ (result.res.t = "ok" /\ result.res.val.is_varadic) =>
                /\ Len(input.items) \in Ellipses(input.items)
                /\ result.before[ItemAt(input.items, Len(input.items)) + 1].kind
                       = "PareR"
        /\ (\E i \in Ellipses(input.items) :
                result.before[ItemAt(input.items, i) + 1].kind # "PareR") =>
                result.res.t = "err"
        /\ (Ellipses(input.items) = {} /\ result.res.t = "ok") =>
                ~result.res.val.is_varadic

\* C13 as amended: one `,` may stand between the ellipsis and the `)`.
\* is_variadic = true only when the ellipsis is the last item (followed by
\* `)` or by `,` `)`); a list in which an item follows an ellipsis is
\* rejected with ExpectedToken; a list without an ellipsis gives
\* is_variadic = false.
C13_EllipsisIsLast ==
    result.op = "args" =>
        /\ (result.res.t = "ok" /\ result.res.val.is_varadic) =>
                /\ Len(input.items) \in Ellipses(input.items)
                /\ tokens = SubSeq(result.before,
                                   Len(result.before) - Len(input.suffix) + 1,
                                   Len(result.before))
        /\ (\E i \in Ellipses(input.items) : i < Len(input.items)) =>
                /\ result.res.t = "err"
                /\ result.res.val = NoVal
        /\ (Ellipses(input.items) = {} /\ result.res.t = "ok") =>
                ~result.res.val.is_varadic

\* `(a, ...,)`: the ellipsis, a `,` and the `)`.
C13_Witness ==
    /\ result.op = "args"
    /\ input.items = <<<<Id("a")>>, <<Lx("Ellipsis")>>>>
    /\ input.comma
    /\ result.res.t = "ok"
    /\ result.res.val.is_varadic
    /\ DOMAIN result.res.val.args = {"a"}

----------------------------------------------------------------------------
(* SpecCall: call("f") on `( e1 , ... , en )`, possibly with a `,` in      *)
(* front of the `)` or a stray token after one of the arguments, with or   *)
(* without a `;` after the `)`, followed by whatever comes next.           *)

\* An argument: an expression without calls (nested = none), or the call
\* `g(1)` or `g()`, whose node is given.
CallArguments ==
    {[lexemes |-> e, nested |-> <<>>] : e \in CallArgs}
    \cup {[lexemes |-> <<Id("g"), Lx("PareL"), Num("1"), Lx("PareR")>>,
           nested |-> <<Stmt_Call("g", <<Token_into_Stmt(Num("1"))>>)>>],
          [lexemes |-> <<Id("g"), Lx("PareL"), Lx("PareR")>>,
           nested |-> <<Stmt_Call("g", <<>>)>>]}

StrayLexemes == {Lx("Semi"), Lx("Equals"), Num("2")}

CallCases ==
    {[args |-> as, stray |-> x, comma |-> c, semi |-> m, suffix |-> z] :
        as \in SeqsUpTo(CallArguments, MaxCallArgs),
        x \in {<<>>} \cup {<<[at |-> i, lexeme |-> l]>> :
                              i \in 1..MaxCallArgs, l \in StrayLexemes},
        c \in BOOLEAN, m \in BOOLEAN,
        z \in {<<>>, <<Id("b")>>, <<Lx("Semi")>>}}

\* The argument list: argument i, the stray token after it if there is
\* one, and a `,` between two arguments.
RECURSIVE ArgumentLexemes(_, _)
ArgumentLexemes(c, i) ==
    IF i > Len(c.args) THEN <<>>
    ELSE c.args[i].lexemes
            \o (IF c.stray # <<>> /\ c.stray[1].at = i
                THEN <<c.stray[1].lexeme>> ELSE <<>>)
            \o (IF i < Len(c.args) THEN <<Lx("Comma")>> ELSE <<>>)
            \o ArgumentLexemes(c, i + 1)

CallLexemes(c) ==
    <<Lx("PareL")>> \o ArgumentLexemes(c, 1)
        \o (IF c.comma THEN <<Lx("Comma")>> ELSE <<>>)
        \o <<Lx("PareR")>>
        \o (IF c.semi THEN <<Lx("Semi")>> ELSE <<>>) \o c.suffix

InitCall ==
    \E c \in CallCases :
        /\ c.stray # <<>> => c.stray[1].at <= Len(c.args)
        /\ ParserStartsOn(c, CallLexemes(c))

NextCall == DoCall

SpecCall == InitCall /\ [][NextCall]_vars

\* The node argument i of a well-formed call stands for (`(` is token 1).
ArgumentTree(c, toks, i) ==
    IF c.args[i].nested # <<>> THEN c.args[i].nested[1]
    ELSE LET as == [j \in 1..Len(c.args) |-> c.args[j].lexemes] IN
         RefTree(SubSeq(toks, ArgStart(as, i, 0),
                        ArgStart(as, i, 0) + Len(as[i]) - 1))

\* C15: on `( e1 , ... , en )` call(name) returns Call{name, [e1, ..., en]}
\* with the arguments in source order, and on `( )` a Call without
\* arguments; with a `,` right before the `)`, or with a token that is
\* neither `)` nor `,` after an argument, it fails with a parse error and
\* produces no Call node.
C15_CallArguments ==
    result.op = "call" =>
        IF input.stray = <<>> /\ ~input.comma
        THEN /\ result.res.t = "ok"
             /\ result.res.val =
                    Stmt_Call("f", [i \in 1..Len(input.args) |->
                                      ArgumentTree(input, result.before, i)])
        ELSE /\ result.res.t = "err"
             /\ result.res.val = NoVal

\* Index in the stream call() was given of the call's closing `)`.
CloseAt(c, toks) == Len(toks) - Len(c.suffix) - (IF c.semi THEN 1 ELSE 0)

\* C16: whenever call() returns Ok and a `;` comes right after the call's
\* closing `)`, that `;` has been consumed and nothing after it, for a call
\* without arguments as for one with arguments.
C16_CallTerminator ==
    (/\ result.op = "call"
     /\ result.res.t = "ok"
     /\ CloseAt(input, result.before) < Len(result.before)
     /\ result.before[CloseAt(input, result.before) + 1].kind = "Semi") =>
        tokens = SubSeq(result.before, CloseAt(input, result.before) + 2,
                        Len(result.before))

----------------------------------------------------------------------------
(* SpecVariable: variable() on `let [mut] name = E [;]` and on the same    *)
(* with the name left out or replaced by another token.                    *)

\* What stands where the name belongs: the identifier, nothing (the `=`
\* comes next), or a token of another kind.
NameSlots == {<<Id("a")>>, <<>>, <<Num("1")>>, <<Str("x")>>, <<Lx("Mut")>>}

\* (a `mut` in the name's place is a second `mut`)
VariableCases ==
    {c \in [is_mut : BOOLEAN, name : NameSlots, value : AssignValues,
            semi : BOOLEAN, suffix : {<<>>, <<Id("b")>>}] :
        c.name = <<Lx("Mut")>> => c.is_mut}

VariableLexemes(c) ==
    <<Lx("Let")>> \o (IF c.is_mut THEN <<Lx("Mut")>> ELSE <<>>)
        \o c.name \o <<Lx("Equals")>> \o ValueLexemes(c.value)
        \o (IF c.semi THEN <<Lx("Semi")>> ELSE <<>>) \o c.suffix

InitVariable == \E c \in VariableCases : ParserStartsOn(c, VariableLexemes(c))

NextVariable == DoVariable

SpecVariable == InitVariable /\ [][NextVariable]_vars

\* Index of the token after `let` and the optional `mut`.
NameAt(c) == IF c.is_mut THEN 3 ELSE 2

\* The tree of the value E, which starts two tokens after the name.
DeclaredValue(c, toks) ==
    LET from == NameAt(c) + 2 IN
    IF c.value.call
    THEN Stmt_Call("f",
             [i \in 1..Len(c.value.args) |->
                 RefTree(SubSeq(toks, ArgStart(c.value.args, i, from),
                                ArgStart(c.value.args, i, from)
                                    + Len(c.value.args[i]) - 1))])
    ELSE RefTree(SubSeq(toks, from, from + Len(c.value.lexemes) - 1))

\* C17: when the token after `let` and an optional `mut` is not an
\* identifier, variable() fails with ExpectedToken carrying that very
\* token, line and column included, and produces no Variable node; on a
\* well-formed declaration it returns Variable{name, value, is_mut} with
\* is_mut true iff `mut` was there, with or without a trailing `;`.
C17_VariableDeclaration ==
    result.op = "variable" =>
        IF result.before[NameAt(input)].kind # "Identifier"
        THEN /\ result.res.t = "err"
             /\ result.res.err.type = "ExpectedToken"
             /\ result.res.err.token = result.before[NameAt(input)]
             /\ result.res.err.token.line = 1
             /\ result.res.err.token.column = NameAt(input) - 1
             /\ result.res.val = NoVal
        ELSE /\ result.res.t = "ok"
             /\ result.res.val =
                    Stmt_Variable("a", DeclaredValue(input, result.before),
                                  input.is_mut)

\* `let mut = E`: the `=` stands where the name belongs.
C17_Witness ==
    /\ result.op = "variable"
    /\ input.is_mut /\ input.name = <<>>
    /\ result.res.err.type = "ExpectedToken"
    /\ result.res.err.token.kind = "Equals"
    /\ result.res.err.token.column = 2

----------------------------------------------------------------------------
(* SpecProgram: parse() on a source made of external declarations          *)
(* `func f ( ... ) @requires("h")` followed by other statements.           *)

MaxExternals == 2    \* most external declarations in front
MaxRest == 2         \* most statements after them

ExternalDecls ==
    {c \in FunctionCases :
        /\ c.params \in {<<>>, <<[name |-> "a", type |-> <<>>]>>,
                         <<[name |-> "a", type |-> <<"Int">>],
                           [name |-> "b", type |-> <<>>]>>}
        /\ c.external = <<[name |-> "requires", value |-> Str("h")]>>
        /\ c.body = <<>>}

\* Statements that may follow, and the node each stands for.
RestStatements ==
    {[lexemes |-> <<Lx("Let"), Id("a"), Lx("Equals"), Num("1"), Lx("Semi")>>,
      stmt |-> Stmt_Variable("a", Token_into_Stmt(Num("1")), FALSE)],
     [lexemes |-> <<Id("a"), Lx("Equals"), Str("s"), Lx("Semi")>>,
      stmt |-> Stmt_Assignment("a", Token_into_Stmt(Str("s")))],
     [lexemes |-> <<Id("g"), Lx("PareL"), Num("1"), Lx("PareR"), Lx("Semi")>>,
      stmt |-> Stmt_Call("g", <<Token_into_Stmt(Num("1"))>>)],
     [lexemes |-> <<Lx("Func"), Id("g"), Lx("PareL"), Lx("PareR"),
                    Lx("BraceL"), Lx("Return"), Id("a"), Lx("BraceR")>>,
      stmt |-> Stmt_Function("g", <<>>, <<>>, FALSE,
                             Block(<<Stmt_Return(Token_into_Stmt(Id("a")))>>))],
     [lexemes |-> <<Lx("PareL"), Id("a"), Lx("PareR")>>,
      stmt |-> Token_into_Stmt(Id("a"))]}

ProgramCases ==
    [externals : SeqsUpTo(ExternalDecls, MaxExternals),
     rest : SeqsUpTo(RestStatements, MaxRest)]

ProgramLexemes(c) ==
    Flatten([i \in 1..Len(c.externals) |-> FunctionLexemes(c.externals[i])])
        \o Flatten([i \in 1..Len(c.rest) |-> c.rest[i].lexemes])

InitProgram == \E c \in ProgramCases : ParserStartsOn(c, ProgramLexemes(c))

NextProgram == ParsePass \/ ParseReturn

SpecProgram == InitProgram /\ [][NextProgram]_vars

\* The mapping of a list of pairwise distinct parameters.
Mapping(ps) ==
    [n \in {ps[i].name : i \in 1..Len(ps)} |->
        (CHOOSE q \in {ps[i] : i \in 1..Len(ps)} : q.name = n).type]

\* The node of the external declaration c.
ExternalNode(c) ==
    Stmt_Function("f", Mapping(c.params), c.external[1].value.value,
                  c.variadic, Block(<<>>))

\* Number of tokens of the first k external declarations.
RECURSIVE DeclsLen(_, _)
DeclsLen(ds, k) ==
    IF k = 0 THEN 0 ELSE DeclsLen(ds, k - 1) + Len(FunctionLexemes(ds[k]))

\* C12: after each of the N external declarations of a source has been
\* parsed, the first unconsumed token is the one right after that
\* declaration's closing `)` and parse() goes on from it: the statements
\* collected start with the N Function nodes in source order, and parse()
\* ends with Ok of those followed by the statements of the rest.
C12_ResumesAfterExternal ==
    LET N == Len(input.externals)
        all == Positioned(ProgramLexemes(input))
        k == IF Len(stmts) < N THEN Len(stmts) ELSE N
    IN  /\ status \in {"running", "ok"}
        /\ \A i \in 1..k : stmts[i] = ExternalNode(input.externals[i])
        /\ Len(stmts) <= N =>
               tokens = SubSeq(all, DeclsLen(input.externals, Len(stmts)) + 1,
                               Len(all))
        /\ status = "ok" =>
               stmts = [i \in 1..(N + Len(input.rest)) |->
                          IF i <= N THEN ExternalNode(input.externals[i])
                          ELSE input.rest[i - N].stmt]

\* Two external declarations, the second variadic, then two statements.
C12_Witness ==
    /\ status = "ok"
    /\ Len(input.externals) = 2
    /\ Len(input.rest) = 2
    /\ ~input.externals[1].variadic /\ input.externals[2].variadic
    /\ Len(stmts) = 4
    /\ stmts[2].external = <<"h">> /\ stmts[2].is_varadic
    /\ stmts[3].t = "Variable"

----------------------------------------------------------------------------
(* Inputs of the cursor and the lexer: source texts.                       *)

MaxCursor == 4       \* longest source text the cursor alone walks
MaxSrc == 3          \* longest source text over the whole alphabet
MaxNum == 5          \* longest source text over the number alphabet

\* ("NUL" is the character U+0000, which a source text may hold like any
\* other)
CursorChars == {"a", "b", "\n", "NUL"}

SourceChars == {"a", "n", "1", "_", ".", ";", " ", "\n", "'", "\"", "\\"}

NumberChars == {"1", "2", "_", ".", ";"}

MaxStr == 4          \* most characters after the opening quote of a literal

StringChars == {"a", "n", "t", "'", "\"", "\\"}

\* Source texts that start with a quote.
StringSources ==
    {<<d>> \o body : d \in {"'", "\""}, body \in SeqsUpTo(StringChars, MaxStr)}

\* `out` is followed up to OutCap characters, one more than any input has:
\* a token's payload is never longer than the input.  A pass that only makes
\* a longer `out` still longer, as the scanning loops do once the cursor has
\* met the end of the input on a character of the run, shows as a step that
\* changes nothing, and the loop that repeats it as a run that stays there.
OutCap ==
    LET longest == {MaxNum, MaxSrc, MaxStr + 1} IN
    (CHOOSE n \in longest : \A m \in longest : m <= n) + 1

push(str, c) == IF Len(str) < OutCap THEN Append(str, c) ELSE str

\* Index in the source of the cursor's current character.
Pos == Len(input) - Len(buffer.data)

----------------------------------------------------------------------------
(* SpecCursor: Buffer::new, then any number of next() calls.               *)

BufferNext ==
    /\ lex_pc = "cursor"
    /\ buffer' = next(buffer).buf
    /\ result' = [op |-> "next", arg |-> "", before |-> buffer,
                  res |-> next(buffer).ret]
    /\ UNCHANGED <<input, tokens, stmts, status, lex_pc, out, delim, start,
                   lexed>>

InitCursor ==
    /\ input \in SeqsUpTo(CursorChars, MaxCursor)
    /\ buffer = Buffer_new(input)
    /\ lex_pc = "cursor"
    /\ out = <<>> /\ delim = "NUL" /\ start = 0 /\ lexed = <<>>
    /\ ParserIdle

NextCursor == BufferNext

SpecCursor == InitCursor /\ [][NextCursor]_vars

----------------------------------------------------------------------------
(* SpecLexer: Lexer::new, then lex() step by step.  One action is one pass *)
(* through the loop of lex() or of the scanning routine in progress.       *)

\* lex(): the loop condition fails, the tokens are returned.
LexReturn ==
    /\ lex_pc = "lex"
    /\ buffer.eof
    /\ lex_pc' = "done"
    /\ UNCHANGED <<input, parserVars, buffer, out, delim, start, lexed>>

\* lex(): a letter or `_`; parse_idx_or_kw is entered.
StartIdentifier ==
    /\ lex_pc = "lex"
    /\ ~buffer.eof
    /\ buffer.current \in Letters \cup {"_"}
    /\ lex_pc' = "idx"
    /\ out' = <<>>
    /\ start' = Pos
    /\ UNCHANGED <<input, parserVars, buffer, delim, lexed>>

\* lex(): a digit; parse_number is entered.
StartNumber ==
    /\ lex_pc = "lex"
    /\ ~buffer.eof
    /\ buffer.current \in Digits
    /\ lex_pc' = "num"
    /\ out' = <<>>
    /\ start' = Pos
    /\ UNCHANGED <<input, parserVars, buffer, delim, lexed>>

\* lex(): a quote; parse_string is entered and steps over the delimiter.
StartString ==
    /\ lex_pc = "lex"
    /\ ~buffer.eof
    /\ buffer.current \in {"'", "\""}
    /\ lex_pc' = "str"
    /\ out' = <<>>
    /\ start' = Pos
    /\ delim' = buffer.current
    /\ buffer' = next(buffer).buf
    /\ UNCHANGED <<input, parserVars, lexed>>

\* lex(): whitespace is stepped over.
SkipWhitespace ==
    /\ lex_pc = "lex"
    /\ ~buffer.eof
    /\ is_whitespace(buffer.current)
    /\ buffer' = next(buffer).buf
    /\ UNCHANGED <<input, parserVars, lex_pc, out, delim, start, lexed>>

\* lex(): any other character goes through parse_character.
LexCharacter ==
    /\ lex_pc = "lex"
    /\ ~buffer.eof
    /\ buffer.current \notin Letters \cup {"_"} \cup Digits \cup {"'", "\""}
    /\ ~is_whitespace(buffer.current)
    /\ IF parse_character(buffer.current) = <<>>
       THEN /\ lex_pc' = "panic"
            /\ UNCHANGED <<buffer, lexed>>
       ELSE /\ lexed' = Append(lexed,
                               LexToken(parse_character(buffer.current)[1], <<>>))
            /\ buffer' = next(buffer).buf
            /\ UNCHANGED lex_pc
    /\ UNCHANGED <<input, parserVars, out, delim, start>>

\* parse_idx_or_kw: one pass of its loop, or its return.
IdentifierStep ==
    /\ lex_pc = "idx"
    /\ IF is_alphanumeric(buffer.current) \/ buffer.current = "_"
       THEN /\ out' = push(out, buffer.current)
            /\ buffer' = next(buffer).buf
            /\ UNCHANGED <<lex_pc, lexed>>
       ELSE /\ lexed' = Append(lexed,
                               IF match_keyword_to_token(out) # <<>>
                               THEN match_keyword_to_token(out)[1]
                               ELSE LexToken("Identifier", <<out>>))
            /\ lex_pc' = "lex"
            /\ UNCHANGED <<buffer, out>>
    /\ UNCHANGED <<input, parserVars, delim, start>>

\* Variant: `_` is pushed like a digit.
NumberStep_keeps_separator ==
    /\ lex_pc = "num"
    /\ IF is_ascii_digit(buffer.current) \/ buffer.current \in {"_", "."}
       THEN IF buffer.current = "." /\ contains(out, ".")
            THEN /\ lex_pc' = "panic"
                 /\ UNCHANGED <<buffer, out, lexed>>
            ELSE /\ out' = push(out, buffer.current)
                 /\ buffer' = next(buffer).buf
                 /\ UNCHANGED <<lex_pc, lexed>>
       ELSE /\ lexed' = Append(lexed,
                               LexToken(IF contains(out, ".") THEN "Float"
                                        ELSE "Number", <<out>>))
            /\ lex_pc' = "lex"
            /\ UNCHANGED <<buffer, out>>
    /\ UNCHANGED <<input, parserVars, delim, start>>

\* parse_number: one pass of its loop, or its return.
NumberStep ==
    /\ lex_pc = "num"
    /\ IF is_ascii_digit(buffer.current) \/ buffer.current \in {"_", "."}
       THEN IF buffer.current = "_"
            THEN /\ buffer' = next(buffer).buf
                 /\ UNCHANGED <<lex_pc, out, lexed>>
            ELSE IF buffer.current = "." /\ contains(out, ".")
            THEN /\ lex_pc' = "panic"
                 /\ UNCHANGED <<buffer, out, lexed>>
            ELSE /\ out' = push(out, buffer.current)
                 /\ buffer' = next(buffer).buf
                 /\ UNCHANGED <<lex_pc, lexed>>
       ELSE /\ lexed' = Append(lexed,
                               LexToken(IF contains(out, ".") THEN "Float"
                                        ELSE "Number", <<out>>))
            /\ lex_pc' = "lex"
            /\ UNCHANGED <<buffer, out>>
    /\ UNCHANGED <<input, parserVars, delim, start>>

\* parse_string: one pass of its loop, or its return over the delimiter.
StringStep ==
    /\ lex_pc = "str"
    /\ IF buffer.current # delim
       THEN IF buffer.current = "\\"
            THEN /\ out' = push(out, escape(next(buffer).buf.current))
                 /\ buffer' = next(next(buffer).buf).buf
                 /\ UNCHANGED <<lex_pc, lexed>>
            ELSE /\ out' = push(out, buffer.current)
                 /\ buffer' = next(buffer).buf
                 /\ UNCHANGED <<lex_pc, lexed>>
       ELSE /\ buffer' = next(buffer).buf
            /\ lexed' = Append(lexed, LexToken("String", <<out>>))
            /\ lex_pc' = "lex"
            /\ UNCHANGED out
    /\ UNCHANGED <<input, parserVars, delim, start>>

InitLexer ==
    /\ input \in SeqsUpTo(SourceChars, MaxSrc) \cup SeqsUpTo(NumberChars, MaxNum)
                    \cup StringSources
    /\ buffer = Buffer_new(input)
    /\ lex_pc = "lex"
    /\ out = <<>> /\ delim = "NUL" /\ start = 0 /\ lexed = <<>>
    /\ ParserIdle

NextLexer ==
    \/ LexReturn
    \/ StartIdentifier
    \/ StartNumber
    \/ StartString
    \/ SkipWhitespace
    \/ LexCharacter
    \/ IdentifierStep
    \/ NumberStep
    \/ StringStep

SpecLexer == InitLexer /\ [][NextLexer]_vars

\* lex() runs on its own thread of control and is never suspended: whenever
\* a step of it can change the state, one is taken.
FairSpecLexer == SpecLexer /\ WF_vars(NextLexer)

----------------
(* Claims on parse() and on the token stream buffer.                       *)

\* C2: parse() never aborts: no parse routine calls consume() on an empty
\* token stream, so every run ends with Ok(statements) or Err(ParserError).
C2_NeverConsumesEmpty == status # "panic"

\* C3: every pass through the statement loop of parse() and of block()
\* either returns an error or removes at least one token from the stream,
\* so parse() terminates (no pass repeats for ever).
C3_EveryPassRemovesAToken ==
    [][/\ (status = "running" /\ status' = "running")
            => Len(tokens') < Len(tokens)
       /\ status' # "hang"]_vars

\* C8: try_expect(kind) removes and returns the first token iff it exists
\* and has that kind (exactly one token removed, the rest unchanged and in
\* order); otherwise it returns None and leaves the stream as it was.
C8_TryExpectFrame ==
    result.op = "try_expect" =>
        LET b == result.before
            r == result.res
        IN  IF b # <<>> /\ b[1].kind = result.arg
            THEN r.some = <<b[1]>> /\ tokens = Tail(b)
            ELSE r.some = <<>> /\ tokens = b

C8_Witness ==
    /\ result.op = "try_expect"
    /\ result.res.some # <<>>
    /\ Len(result.before) >= 2
    /\ tokens = Tail(result.before)

\* C9: expect(kind) on a first token of another kind, or on an empty stream,
\* returns an ExpectedToken error and leaves the stream unchanged; the
\* error's token is the first remaining token with its own line and column,
\* or a synthetic token of kind None at line 0, column 0 when the stream is
\* empty; on a match expect returns the token exactly as try_expect does.
C9_ExpectError ==
    result.op = "expect" =>
        LET b == result.before
            r == result.res
        IN  IF b # <<>> /\ b[1].kind = result.arg
            THEN /\ r.t = "ok"
                 /\ r.val = b[1]
                 /\ <<r.val>> = try_expect(b, result.arg).some
                 /\ tokens = Tail(b)
                 /\ tokens = try_expect(b, result.arg).toks
            ELSE /\ r.t = "err"
                 /\ r.err.type = "ExpectedToken"
                 /\ tokens = b
                 /\ r.err.token = IF b # <<>> THEN b[1]
                                  ELSE Token_new("None", <<>>, 0, 0)

C9_Witness ==
    /\ result.op = "expect"
    /\ result.res.t = "err"
    /\ result.before # <<>>
    /\ result.res.err.token = Head(tokens)
    /\ result.res.err.token.column > 0

----------------------------------------------------------------------------
(* Claims on the cursor and the lexer.                                     *)

\* C4: lex() terminates on every finite source text: it returns the token
\* sequence or fails with a lexical error, also when the text ends inside an
\* identifier, a number or a string literal, or right after a backslash.
C4_LexTerminates == <>(lex_pc \in {"done", "panic"})

\* 1-based row and 0-based offset within the row of the character input[i].
Row(i) == 1 + Cardinality({j \in 1..(i - 1) : input[j] = "\n"})

RowStart(i) ==
    LET breaks == {j \in 1..(i - 1) : input[j] = "\n"} IN
    IF breaks = {} THEN 1
    ELSE 1 + (CHOOSE j \in breaks : \A k \in breaks : k <= j)

\* C6: whenever the current character is a non-newline character of the
\* input, line is its 1-based row and column its 0-based offset within that
\* row, on every row; next() onto a newline sets column to 0 and adds 1 to
\* line, next() onto any other character adds 1 to column and keeps line.
C6_LineAndColumn ==
    /\ [](input # <<>> /\ buffer.current # "\n"
            => /\ buffer.line = Row(Pos)
               /\ buffer.column = Pos - RowStart(Pos))
    /\ [][result'.res # <<>> =>
            IF result'.res = <<"\n">>
            THEN buffer'.column = 0 /\ buffer'.line = buffer.line + 1
            ELSE buffer'.column = buffer.column + 1 /\ buffer'.line = buffer.line]_vars

\* C18: the end-of-input flag is sticky.  On a non-empty input eof is
\* false until a next() call finds no character left; that call returns
\* None, sets eof and leaves current, line and column as they were; from
\* then on every next() returns None and eof stays true.
C18_StickyEof ==
    /\ []((input # <<>> /\ (result.op = "none" \/ result.res # <<>>))
            => ~buffer.eof)
    /\ [][/\ buffer.data = <<>> =>
               /\ result'.res = <<>>
               /\ buffer'.eof
               /\ buffer'.current = buffer.current
               /\ buffer'.line = buffer.line
               /\ buffer'.column = buffer.column
          /\ buffer.eof => (buffer'.eof /\ result'.res = <<>>)]_vars

\* The maximal run of digits, `_` and `.` that starts at input[s].
RunChars == Digits \cup {"_", "."}

RunEnd(s) ==
    CHOOSE e \in s..Len(input) :
        /\ \A j \in s..e : input[j] \in RunChars
        /\ e = Len(input) \/ input[e + 1] \notin RunChars

Run(s) == SubSeq(input, s, RunEnd(s))

DotsAt(s) == {j \in s..RunEnd(s) : input[j] = "."}

SecondDot(s) ==
    CHOOSE j \in DotsAt(s) : Cardinality({k \in DotsAt(s) : k < j}) = 1

\* C7: parse_number scans the maximal run of digits, `_` and `.`: the
\* payload is the run without its `_`, the kind is Float iff the run has a
\* `.`, scanning stops on the first character outside the run and leaves it
\* as the current character; a second `.` in the run aborts lexing, at that
\* `.` and before any token is made of the run.
C7_NumberToken ==
    [][/\ (lex_pc = "num" /\ lex_pc' = "lex") =>
            /\ Len(lexed') = Len(lexed) + 1
            /\ lexed'[Len(lexed')].value =
                   <<SelectSeq(Run(start), LAMBDA c : c # "_")>>
            /\ lexed'[Len(lexed')].token_type =
                   (IF contains(Run(start), ".") THEN "Float" ELSE "Number")
            /\ RunEnd(start) < Len(input)
            /\ ~buffer'.eof
            /\ Len(buffer'.data) = Len(input) - (RunEnd(start) + 1)
            /\ buffer'.current = input[RunEnd(start) + 1]
       /\ (lex_pc = "num" /\ Cardinality(DotsAt(start)) >= 2) =>
            /\ Pos <= SecondDot(start)
            /\ lex_pc' # "lex"
            /\ Pos = SecondDot(start) => lex_pc' = "panic"]_vars

\* A Float has been made of a run with a separator in it, and the cursor
\* stands on the `;` after the run.
C7_Witness ==
    /\ lex_pc = "lex"
    /\ lexed # <<>>
    /\ lexed[Len(lexed)].token_type = "Float"
    /\ Len(lexed[Len(lexed)].value[1]) >= 3
    /\ contains(Run(start), "_")
    /\ Pos = RunEnd(start) + 1
    /\ buffer.current = ";"
    /\ ~buffer.eof

----------------------------------------------------------------------------
(* Claims on the errors of parse().                                        *)

\* The lines of the source that hold a token.
TokenLines == {Positioned(input)[i].line : i \in 1..Len(input)}

\* C20: the token of every ParserError that parse() returns has a line of
\* at least 1 and at most the number of lines of the source, also when the
\* error is raised because the token stream ran out.
C20_ErrorLineInSource ==
    status = "err" =>
        /\ result.res.err.token.line >= 1
        /\ \E l \in TokenLines : result.res.err.token.line <= l

----------------------------------------------------------------------------
(* Claims on the generated code.                                           *)

\* The operator tokens of the Binary nodes of a tree.
RECURSIVE BinaryOperators(_)
BinaryOperators(node) ==
    IF node.t = "Expr" /\ node.e.t = "Binary"
    THEN {node.e.op} \cup BinaryOperators(node.e.lhs)
                     \cup BinaryOperators(node.e.rhs)
    ELSE {}

\* C21: every operator token the parser places in a Binary node (every
\* kind of positive precedence: + - * / ^) has a textual form in
\* Token::repr, so generating code for an expression the parser accepted
\* never reaches the "Unknown token kind." panic.
C21_OperatorsHaveText ==
    /\ (result.op = "expr" /\ result.res.t = "ok") =>
            \A op \in BinaryOperators(result.res.val) :
                precedence(op.kind) > 0 /\ repr(op).t = "ok"
    /\ result.op = "generate" => result.res.t = "ok"

----------------------------------------------------------------------------
(* Claims on parse_string.                                                 *)

\* Index of the delimiter that closes the literal whose text is scanned from
\* input[i] on: the first d that no backslash stands in front of; 0 if the
\* text ends before one is met.
RECURSIVE Closing(_, _)
Closing(i, d) ==
    IF i > Len(input) THEN 0
    ELSE IF input[i] = d THEN i
    ELSE IF input[i] = "\\" THEN Closing(i + 2, d)
    ELSE Closing(i + 1, d)

\* What a backslash and the character c after it stand for.
Decoded(c) ==
    CASE c = "n" -> "\n"
      [] c = "t" -> "\t"
      [] c = "\\" -> "\\"
      [] OTHER -> c

\* The text input[i .. to - 1] with every backslash pair decoded.
RECURSIVE Payload(_, _)
Payload(i, to) ==
    IF i >= to THEN <<>>
    ELSE IF input[i] = "\\" THEN <<Decoded(input[i + 1])>> \o Payload(i + 2, to)
    ELSE <<input[i]>> \o Payload(i + 1, to)

\* C19: parse_string(d), started on the opening delimiter of a terminated
\* literal, returns a String token whose payload is the text between the
\* delimiters with the backslash pairs decoded (a backslash in front of d
\* keeps d as data, the other quote is data), and leaves the cursor on the
\* character right after the closing delimiter (at the end of the input if
\* there is none).
C19_StringToken ==
    [][(/\ lex_pc = "str" /\ lex_pc' = "lex"
        /\ Closing(start + 1, input[start]) # 0) =>
          LET close == Closing(start + 1, input[start]) IN
          /\ lexed' = Append(lexed, LexToken("String",
                                             <<Payload(start + 1, close)>>))
          /\ IF close < Len(input)
             THEN /\ Len(input) - Len(buffer'.data) = close + 1
                  /\ buffer'.current = input[close + 1]
                  /\ ~buffer'.eof
             ELSE /\ buffer'.data = <<>>
                  /\ buffer'.eof]_vars

\* '\''a : the delimiter after a backslash is data, the next one closes the
\* literal, and the cursor stands on the `a` after it.
C19_Witness ==
    /\ input = <<"'", "\\", "'", "'", "a">>
    /\ lex_pc = "lex"
    /\ lexed = <<LexToken("String", <<<<"'">>>>)>>
    /\ buffer.current = "a"
    /\ ~buffer.eof

====
